---- MODULE Spec2Model ----
(***************************************************************************)
(* k8s_stability_auditor: the audit script (kubectl | jq | while read      *)
(* loop writing k8s_audit_report.csv) and the dashboard (App.tsx).         *)
(*                                                                         *)
(* Strings are sequences of chunks: a chunk is a TLA+ string standing for  *)
(* a run of characters that holds no ",", ":", "/" or tab; those four are  *)
(* chunks of their own.  Concatenation is \o, the empty string is <<>>.    *)
(* JSON objects are functions whose DOMAIN is the set of keys present, so  *)
(* jq's has("k") is "k" \in DOMAIN obj and a missing key reads as null.    *)
(***************************************************************************)
EXTENDS Integers, Sequences, FiniteSets, TLC

(* ------------------------------ bounds -------------------------------- *)
MaxTime == 1
MaxItems == 2
MaxContainers == 2
MaxData == 2
MaxRuns == 2

(* ----------------------------- vocabulary ----------------------------- *)
Str(s) == <<s>>
EmptyStr == <<>>
Comma == ","
Colon == ":"
Slash == "/"
Tab == "\t"
\* jq's null: a value no string of the vocabulary equals
JNull == <<"<null>">>
NoKeys == [k \in {} |-> 0]
Opt(k, S) == {NoKeys} \cup {k :> v : v \in S}

KubeSystem == <<"kube", "-system">>
Kube == <<"kube">>
KubeSystemUpper == <<"Kube", "-system">>
Prod == <<"prod">>

Nginx == <<"nginx">>
NginxLatest == <<"nginx", ":", "latest">>
NginxPinned == <<"nginx", ":", "1.25">>
RegistryNginx == <<"registry", ":", "5000", "/", "nginx">>
RegistryNginxPinned == <<"registry", ":", "5000", "/", "nginx", ":", "1.25">>
Images == {Nginx, NginxLatest, NginxPinned, RegistryNginx, RegistryNginxPinned}
\* an image string with a comma in it and no tag
NginxComma == <<"nginx", ",", "v1">>

Deployment == <<"Deployment">>
StatefulSet == <<"StatefulSet">>
DaemonSet == <<"DaemonSet">>
Kinds == {Deployment, StatefulSet, DaemonSet}

(* ------------------------- string primitives -------------------------- *)
\* jq endswith
endswith(s, suffix) ==
  /\ Len(s) >= Len(suffix)
  /\ SubSeq(s, Len(s) - Len(suffix) + 1, Len(s)) = suffix

\* jq contains, for a one-chunk needle
contains(s, c) == \E i \in 1..Len(s) : s[i] = c

RECURSIVE SplitFrom(_, _, _, _)
SplitFrom(s, sep, i, cur) ==
  IF i > Len(s) THEN <<cur>>
  ELSE IF s[i] = sep THEN <<cur>> \o SplitFrom(s, sep, i + 1, <<>>)
  ELSE SplitFrom(s, sep, i + 1, Append(cur, s[i]))

\* jq split: "" | split(",") is [], "a," | split(",") is ["a", ""]
split(s, sep) == IF s = <<>> THEN <<>> ELSE SplitFrom(s, sep, 1, <<>>)

\* jq index on an array: the 0-based place of the first element equal to x,
\* null (here -1) when there is none
index(arr, x) ==
  IF \E i \in 1..Len(arr) : arr[i] = x
  THEN (CHOOSE i \in 1..Len(arr) : arr[i] = x /\ \A j \in 1..(i - 1) : arr[j] # x) - 1
  ELSE -1

RECURSIVE Join(_, _)
Join(fields, sep) ==
  IF fields = <<>> THEN <<>>
  ELSE IF Len(fields) = 1 THEN fields[1]
  ELSE fields[1] \o <<sep>> \o Join(Tail(fields), sep)

RECURSIVE Flatten(_)
Flatten(ss) == IF ss = <<>> THEN <<>> ELSE Head(ss) \o Flatten(Tail(ss))

MapSeq(s, F(_)) == [i \in 1..Len(s) |-> F(s[i])]

(* ------------------------- the audit script --------------------------- *)
CSVHeader ==
  <<"Timestamp", ",", "Namespace", ",", "Type", ",", "Name", ",",
    "Issue_Level", ",", "Issue_Type", ",", "Recommendation">>

DefaultExcludeNS ==
  <<"kube", "-system", ",", "kube", "-public", ",", "local-path-storage", ",",
    "ingress-nginx", ",", "cert-manager">>

\* ${EXCLUDE_NS:-default}: the default when the variable is unset or empty
ExcludeNsSetting(environ) ==
  IF "EXCLUDE_NS" \in DOMAIN environ /\ environ["EXCLUDE_NS"] # <<>>
  THEN environ["EXCLUDE_NS"]
  ELSE DefaultExcludeNS

\* date -u +'%Y-%m-%dT%H:%M:%SZ': the clock's second, formatted
date(t) == <<ToString(t)>>

\* a variant that takes index's 0 (the first name) for "not found"
is_excludedTruthy(ns, list) == index(split(list, Comma), ns) > 0

is_excluded(ns, list) == index(split(list, Comma), ns) # -1

Field(obj, k) == IF k \in DOMAIN obj THEN obj[k] ELSE JNull

\* $item.spec.replicas // 1
ReplicasOrDefault(item) == IF "replicas" \in DOMAIN item THEN item["replicas"] ELSE 1

Issue(level, issue, detail, rec) ==
  [level |-> Str(level), issue |-> Str(issue), detail |-> detail, rec |-> Str(rec)]

\* "Container: " + .name ; string + null is the string
ContainerDetail(c) ==
  Str("Container: ") \o (IF "name" \in DOMAIN c THEN c["name"] ELSE <<>>)

\* a variant without the kind test
CheckReplicasAnyKind(item) ==
  IF ReplicasOrDefault(item) = 1
  THEN <<Issue("WARN", "Single Replica", Str("replicas=1"), "Increase replicas > 1 for HA")>>
  ELSE <<>>

CheckReplicas(item) ==
  IF Field(item, "kind") = Deployment /\ ReplicasOrDefault(item) = 1
  THEN <<Issue("WARN", "Single Replica", Str("replicas=1"), "Increase replicas > 1 for HA")>>
  ELSE <<>>

IsPrivileged(c) == "privileged" \in DOMAIN c /\ c["privileged"] = TRUE

PrivilegedIssue(c) ==
  Issue("HIGH", "Privileged Container", ContainerDetail(c), "Avoid privileged mode")

CheckSecurityContext(item) ==
  MapSeq(SelectSeq(item["containers"], IsPrivileged), PrivilegedIssue)

\* a variant that flags untagged images only
UsesLatestTagUntaggedOnly(c) == ~contains(c["image"], Colon)

UsesLatestTag(c) ==
  endswith(c["image"], <<Colon, "latest">>) \/ ~contains(c["image"], Colon)

LatestTagIssue(c) ==
  Issue("WARN", "Using Latest Tag",
        ContainerDetail(c) \o Str(" (") \o c["image"] \o Str(")"),
        "Use specific version tag")

CheckImageTag(item) ==
  MapSeq(SelectSeq(item["containers"], UsesLatestTag), LatestTagIssue)

NoLivenessProbe(c) == ~("livenessProbe" \in DOMAIN c)

LivenessIssue(c) ==
  Issue("HIGH", "Missing LivenessProbe", ContainerDetail(c), "Add livenessProbe")

CheckLiveness(item) ==
  MapSeq(SelectSeq(item["containers"], NoLivenessProbe), LivenessIssue)

\* a variant that looks at readiness only once liveness is there
NoReadinessProbeAfterLiveness(c) ==
  "livenessProbe" \in DOMAIN c /\ ~("readinessProbe" \in DOMAIN c)

NoReadinessProbe(c) == ~("readinessProbe" \in DOMAIN c)

ReadinessIssue(c) ==
  Issue("HIGH", "Missing ReadinessProbe", ContainerDetail(c), "Add readinessProbe")

CheckReadiness(item) ==
  MapSeq(SelectSeq(item["containers"], NoReadinessProbe), ReadinessIssue)

\* a variant that flags limits whether or not requests are there
ResourceIssueBoth(c) ==
  (IF ~("requests" \in DOMAIN c)
   THEN <<Issue("CRITICAL", "Missing Requests", ContainerDetail(c), "Define resources.requests")>>
   ELSE <<>>)
  \o (IF ~("limits" \in DOMAIN c)
      THEN <<Issue("CRITICAL", "Missing Limits", ContainerDetail(c), "Define resources.limits")>>
      ELSE <<>>)

\* if requests == null ... elif limits == null ... else empty
ResourceIssue(c) ==
  IF ~("requests" \in DOMAIN c)
  THEN <<Issue("CRITICAL", "Missing Requests", ContainerDetail(c), "Define resources.requests")>>
  ELSE IF ~("limits" \in DOMAIN c)
  THEN <<Issue("CRITICAL", "Missing Limits", ContainerDetail(c), "Define resources.limits")>>
  ELSE <<>>

CheckResources(item) == Flatten(MapSeq(item["containers"], ResourceIssue))

\* a variant that walks the containers and lists each one's issues together
IssuesOfContainer(item, j) ==
  LET one == [item EXCEPT !["containers"] = <<item["containers"][j]>>] IN
  CheckSecurityContext(one) \o CheckImageTag(one) \o CheckLiveness(one)
    \o CheckReadiness(one) \o CheckResources(one)

IssuesByContainer(item) ==
  CheckReplicas(item)
    \o Flatten([j \in 1..Len(item["containers"]) |-> IssuesOfContainer(item, j)])

\* the issue list of one workload: the six arrays added in order
Issues(item) ==
  CheckReplicas(item) \o CheckSecurityContext(item) \o CheckImageTag(item)
    \o CheckLiveness(item) \o CheckReadiness(item) \o CheckResources(item)

\* jq stops with an error (exit 5) on .containers[] of null and on
\* null | endswith(...)
JqError(item) ==
  \/ ~("containers" \in DOMAIN item)
  \/ \E i \in 1..Len(item["containers"]) : ~("image" \in DOMAIN item["containers"][i])

\* @tsv: null is the empty field, a tab inside a field is written \t
TsvField(v) ==
  IF v = JNull THEN <<>> ELSE [i \in 1..Len(v) |-> IF v[i] = Tab THEN "\\t" ELSE v[i]]

Tsv(fields) == Join(MapSeq(fields, TsvField), Tab)

\* a variant that reads the clock for every row
StampPerRow(bound, clock) == clock

\* which timestamp a row carries: $current_time, bound once on the command line
Stamp(bound, clock) == bound

Row(item, o, bound, clock) ==
  Tsv(<<Stamp(bound, clock), Field(item, "namespace"), Field(item, "kind"),
        Field(item, "name"), o.level, o.issue, o.rec, o.detail>>)

\* .[] | [...] | @tsv : one line per issue, none for an empty list
Rows(item, bound, clock) ==
  [i \in 1..Len(Issues(item)) |-> Row(item, Issues(item)[i], bound, clock)]

\* IFS=$'\t' read -r with 8 names: tab is IFS white space, so runs of tabs are
\* one separator and leading and trailing tabs are dropped; names beyond the
\* words are empty, the last name takes the rest of the line
NonEmpty(w) == w # <<>>
ReadWords(line) == SelectSeq(split(line, Tab), NonEmpty)

Read(line) ==
  LET w == ReadWords(line) IN
  [i \in 1..8 |->
     IF i > Len(w) THEN <<>>
     ELSE IF i < 8 THEN w[i]
     ELSE Join(SubSeq(w, 8, Len(w)), Tab)]

\* echo "$TIMESTAMP,$NS,$KIND,$NAME,$LEVEL,$ISSUE - $DETAIL,$REC"
CsvLine(line) ==
  LET v == Read(line) IN
  v[1] \o <<Comma>> \o v[2] \o <<Comma>> \o v[3] \o <<Comma>> \o v[4] \o <<Comma>>
    \o v[5] \o <<Comma>> \o v[6] \o Str(" - ") \o v[8] \o <<Comma>> \o v[7]

(* ------------------------------- state -------------------------------- *)
VARIABLES
  runs,          \* how many times the script has been started
  earlier,       \* the last complete run before this one: what it read and wrote
  environ,       \* the script's environment: EXCLUDE_NS set or not
  cluster,       \* what kubectl get ... -A -o json answers: the .items
  now,           \* the wall clock, in seconds
  pc,            \* where the script is
  EXCLUDE_NS,    \* the script's variable after its configuration section
  TEMP_JSON,     \* the temp file's .items
  current_time,  \* jq's $current_time
  jq_next,       \* the place in .items jq has come to
  jq_status,     \* "idle", "running", "ok" (exit 0) or "error" (exit 5)
  pipe,          \* lines jq has written and the loop has not read
  CSV_FILE,      \* k8s_audit_report.csv, a sequence of lines; <<>> is no file
  data,          \* App: useState<AuditItem[]>
  loading,       \* App: useState(false)
  lastRun,       \* App: useState<string | null>; <<>> is null
  error,         \* App: useState<string | null>; <<>> is null
  activeCategory, \* App: useState('All')
  mountFetch,    \* the fetchReport of useEffect: "none", "pending", "done"
  auditPc,       \* runAudit: "idle", "audit" (awaiting POST), "report" (awaiting fetchReport)
  inflight       \* POST /api/audit requests sent and not yet answered

scriptVars ==
  <<runs, earlier, environ, cluster, now, pc, EXCLUDE_NS, TEMP_JSON, current_time, jq_next,
    jq_status, pipe, CSV_FILE>>
appVars == <<data, loading, lastRun, error, activeCategory, mountFetch, auditPc, inflight>>
vars == <<scriptVars, appVars>>

(* ------------------------------ inputs -------------------------------- *)
WorkloadName(i) == <<"w" \o ToString(i)>>
ContainerName(j) == <<"c" \o ToString(j)>>

\* every combination of the fields the rules read, for a container named nm
ContainersFull(nm) ==
  { [name |-> nm, image |-> img] @@ p @@ l @@ r @@ q @@ m :
      img \in Images,
      p \in Opt("privileged", {TRUE, FALSE}),
      l \in Opt("livenessProbe", {"httpGet"}),
      r \in Opt("readinessProbe", {"httpGet"}),
      q \in Opt("requests", {"cpu=100m"}),
      m \in Opt("limits", {"cpu=200m"}) }

\* a container no rule flags
CleanContainer(nm) ==
  [name |-> nm, image |-> NginxPinned, livenessProbe |-> "httpGet",
   readinessProbe |-> "httpGet", requests |-> "cpu=100m", limits |-> "cpu=200m"]

\* flagged by the privileged, liveness and limits rules
RiskyContainer(nm) ==
  [name |-> nm, image |-> NginxPinned, privileged |-> TRUE,
   readinessProbe |-> "httpGet", requests |-> "cpu=100m"]

\* flagged by the image tag and requests rules
LatestContainer(nm) ==
  [name |-> nm, image |-> NginxLatest, livenessProbe |-> "httpGet",
   readinessProbe |-> "httpGet"]

Workload(kind, ns, nm, cs) ==
  [kind |-> kind, namespace |-> ns, name |-> nm, containers |-> cs]

\* one workload, one container, every container shape
ContainerInputs ==
  { <<Workload(k, Prod, WorkloadName(1), <<c>>)>> :
      k \in {Deployment, StatefulSet}, c \in ContainersFull(ContainerName(1)) }

\* one workload, every kind and replica count
ReplicaInputs ==
  { <<Workload(k, Prod, WorkloadName(1), <<c>>) @@ r>> :
      k \in Kinds, r \in Opt("replicas", {0, 1, 2}),
      c \in {CleanContainer(ContainerName(1)), LatestContainer(ContainerName(1))} }

Namespaces == {Prod, Kube, KubeSystem, KubeSystemUpper}

\* sequences of length <= n whose i-th element is drawn from At(i)
SeqsUpTo(n, At(_)) ==
  UNION { { s \in [1..k -> UNION {At(i) : i \in 1..k}] : \A i \in 1..k : s[i] \in At(i) } :
            k \in 0..n }

NamespaceWorkloads(i) ==
  { Workload(StatefulSet, ns, WorkloadName(i), <<LatestContainer(ContainerName(1))>>) :
      ns \in Namespaces }

\* up to MaxItems workloads in any namespaces
NamespaceInputs == SeqsUpTo(MaxItems, NamespaceWorkloads)

ProfileAt(j) == {CleanContainer(ContainerName(j)), RiskyContainer(ContainerName(j)),
                 LatestContainer(ContainerName(j))}

ContainerLists == SeqsUpTo(MaxContainers, ProfileAt) \ {<<>>}

\* a Deployment of up to MaxContainers containers, alone or followed by a
\* Deployment of two flagged containers
OrderInputs ==
  { <<Workload(Deployment, Prod, WorkloadName(1), cs)>> \o rest :
      cs \in ContainerLists,
      rest \in { <<>>,
                 <<Workload(Deployment, Prod, WorkloadName(2),
                            <<RiskyContainer(ContainerName(1)),
                              LatestContainer(ContainerName(2))>>)>> } }

\* one workload whose container's image holds a comma or not
CommaInputs ==
  { <<Workload(k, Prod, WorkloadName(1),
               <<[LatestContainer(ContainerName(1)) EXCEPT !["image"] = img]>>)>> :
      k \in {Deployment, StatefulSet}, img \in {NginxComma, Nginx} }

\* the Deployment web in prod: replicas absent, one container app with image
\* app:latest, no probes, no resources
Web ==
  Workload(Deployment, Prod, <<"web">>,
           << [name |-> <<"app">>, image |-> <<"app", ":", "latest">>] >>)

ExampleInputs == { <<Web>> }

\* a record with the key k left out
Without(w, k) == [x \in DOMAIN w \ {k} |-> w[x]]

RawWorkloads(i) ==
  LET good == Workload(StatefulSet, Prod, WorkloadName(i),
                       <<LatestContainer(ContainerName(1))>>)
  IN {good} \cup {Without(good, k) : k \in {"kind", "namespace", "name", "containers"}}

\* up to MaxItems raw records, any of which may lack a field
RawInputs == SeqsUpTo(MaxItems, RawWorkloads)

Unset == NoKeys
Setting(list) == "EXCLUDE_NS" :> list

Environments ==
  { Unset, Setting(<<>>), Setting(Prod), Setting(Prod \o <<Comma>> \o KubeSystem),
    Setting(KubeSystem \o <<Comma>> \o Prod) }

\* a report left by an earlier run
StaleReport ==
  <<CSVHeader,
    <<"0", ",", "old", ",", "Deployment", ",", "gone", ",", "WARN", ",",
      "Single Replica - replicas=1", ",", "Increase replicas > 1 for HA">>>>

AppIdle ==
  /\ data = <<>>
  /\ loading = FALSE
  /\ lastRun = <<>>
  /\ error = <<>>
  /\ activeCategory = "All"
  /\ mountFetch = "none"
  /\ auditPc = "idle"
  /\ inflight = 0

\* no run before this one
NoRun == [ran |-> FALSE, items |-> <<>>, exclude |-> <<>>, clock |-> <<>>, report |-> <<>>]

ScriptStart(inputs, envs, reports) ==
  /\ runs = 1
  /\ earlier = NoRun
  /\ environ \in envs
  /\ cluster \in inputs
  /\ CSV_FILE \in reports
  /\ now = 0
  /\ pc = "start"
  /\ EXCLUDE_NS = ExcludeNsSetting(environ)
  /\ TEMP_JSON = <<>>
  /\ current_time = <<>>
  /\ jq_next = 1
  /\ jq_status = "idle"
  /\ pipe = <<>>

Init ==
  /\ \/ ScriptStart(ContainerInputs, {Unset}, {<<>>})
     \/ ScriptStart(ReplicaInputs, {Unset}, {<<>>, StaleReport})
     \/ ScriptStart(NamespaceInputs, Environments, {<<>>})
     \/ ScriptStart(OrderInputs, {Unset}, {<<>>})
     \/ ScriptStart(CommaInputs, {Unset}, {<<>>})
     \/ ScriptStart(ExampleInputs, {Unset, Setting(Prod)}, {<<>>})
  /\ AppIdle

(* ------------------------------ actions ------------------------------- *)
Tick ==
  /\ now < MaxTime
  /\ pc \notin {"done", "exit1"}
  /\ now' = now + 1
  /\ UNCHANGED <<runs, earlier, environ, cluster, pc, EXCLUDE_NS, TEMP_JSON, current_time, jq_next,
                 jq_status, pipe, CSV_FILE, appVars>>

\* the prerequisites hold and kubectl writes the temp file
Gather ==
  /\ pc = "start"
  /\ TEMP_JSON' = cluster
  /\ pc' = "init_csv"
  /\ UNCHANGED <<runs, earlier, environ, cluster, now, EXCLUDE_NS, current_time, jq_next, jq_status,
                 pipe, CSV_FILE, appVars>>

\* a prerequisite is missing or kubectl fails: exit 1 under set -e
ExitEarly ==
  /\ pc = "start"
  /\ pc' = "exit1"
  /\ UNCHANGED <<runs, earlier, environ, cluster, now, EXCLUDE_NS, TEMP_JSON, current_time, jq_next,
                 jq_status, pipe, CSV_FILE, appVars>>

\* a variant that opens the report with >> and keeps what is in it
InitCSVAppend ==
  /\ pc = "init_csv"
  /\ CSV_FILE' = CSV_FILE \o <<CSVHeader>>
  /\ pc' = "jq_start"
  /\ UNCHANGED <<runs, earlier, environ, cluster, now, EXCLUDE_NS, TEMP_JSON, current_time, jq_next,
                 jq_status, pipe, appVars>>

\* echo header > "$CSV_FILE"
InitCSV ==
  /\ pc = "init_csv"
  /\ CSV_FILE' = <<CSVHeader>>
  /\ pc' = "jq_start"
  /\ UNCHANGED <<runs, earlier, environ, cluster, now, EXCLUDE_NS, TEMP_JSON, current_time, jq_next,
                 jq_status, pipe, appVars>>

\* the pipeline starts: $(date ...) is expanded once, on jq's command line
StartPipeline ==
  /\ pc = "jq_start"
  /\ current_time' = date(now)
  /\ jq_next' = 1
  /\ jq_status' = "running"
  /\ pc' = "pipeline"
  /\ UNCHANGED <<runs, earlier, environ, cluster, now, EXCLUDE_NS, TEMP_JSON, pipe, CSV_FILE, appVars>>

\* jq takes the next of .items[]: drops it, fails on it, or writes its rows
JqItem ==
  /\ pc = "pipeline"
  /\ jq_status = "running"
  /\ jq_next <= Len(TEMP_JSON)
  /\ LET item == TEMP_JSON[jq_next] IN
       IF is_excluded(Field(item, "namespace"), EXCLUDE_NS)
       THEN /\ jq_next' = jq_next + 1
            /\ UNCHANGED <<jq_status, pipe>>
       ELSE IF JqError(item)
       THEN /\ jq_status' = "error"
            /\ UNCHANGED <<jq_next, pipe>>
       ELSE /\ pipe' = pipe \o Rows(item, current_time, date(now))
            /\ jq_next' = jq_next + 1
            /\ UNCHANGED jq_status
  /\ UNCHANGED <<runs, earlier, environ, cluster, now, pc, EXCLUDE_NS, TEMP_JSON, current_time,
                 CSV_FILE, appVars>>

\* .items[] is exhausted: jq exits 0
JqEnd ==
  /\ pc = "pipeline"
  /\ jq_status = "running"
  /\ jq_next > Len(TEMP_JSON)
  /\ jq_status' = "ok"
  /\ UNCHANGED <<runs, earlier, environ, cluster, now, pc, EXCLUDE_NS, TEMP_JSON, current_time,
                 jq_next, pipe, CSV_FILE, appVars>>

\* one pass of the while read loop: a line leaves the pipe, a line joins the report
ReadRow ==
  /\ pc = "pipeline"
  /\ pipe # <<>>
  /\ CSV_FILE' = Append(CSV_FILE, CsvLine(Head(pipe)))
  /\ pipe' = Tail(pipe)
  /\ UNCHANGED <<runs, earlier, environ, cluster, now, pc, EXCLUDE_NS, TEMP_JSON, current_time,
                 jq_next, jq_status, appVars>>

\* a variant that stops reading as soon as jq has exited
LoopEndEarly ==
  /\ pc = "pipeline"
  /\ jq_status \in {"ok", "error"}
  /\ pc' = "done"
  /\ UNCHANGED <<runs, earlier, environ, cluster, now, EXCLUDE_NS, TEMP_JSON, current_time,
                 jq_next, jq_status, pipe, CSV_FILE, appVars>>

\* read meets end of file; the pipeline's status is the loop's (no pipefail),
\* so the script goes on to "Audit Complete" whatever jq's status was
LoopEnd ==
  /\ pc = "pipeline"
  /\ jq_status \in {"ok", "error"}
  /\ pipe = <<>>
  /\ pc' = "done"
  /\ UNCHANGED <<runs, earlier, environ, cluster, now, EXCLUDE_NS, TEMP_JSON, current_time, jq_next,
                 jq_status, pipe, CSV_FILE, appVars>>

\* the script has ended and is started again, within the same second or
\* later, on the cluster as it is then (here: as it was, or with its first
\* workload deleted); the report file is where the last run left it, the
\* temp file is gone (trap ... EXIT)
RunAgain ==
  /\ pc \in {"done", "exit1"}
  /\ runs < MaxRuns
  /\ now' \in {now} \cup (IF now < MaxTime THEN {now + 1} ELSE {})
  /\ runs' = runs + 1
  /\ earlier' = IF pc = "done"
                THEN [ran |-> TRUE, items |-> cluster, exclude |-> EXCLUDE_NS,
                      clock |-> current_time, report |-> CSV_FILE]
                ELSE earlier
  /\ cluster' \in {cluster} \cup (IF cluster = <<>> THEN {} ELSE {Tail(cluster)})
  /\ pc' = "start"
  /\ EXCLUDE_NS' = ExcludeNsSetting(environ)
  /\ TEMP_JSON' = <<>>
  /\ current_time' = <<>>
  /\ jq_next' = 1
  /\ jq_status' = "idle"
  /\ pipe' = <<>>
  /\ UNCHANGED <<environ, CSV_FILE, appVars>>

Next ==
  \/ Tick
  \/ Gather
  \/ ExitEarly
  \/ InitCSV
  \/ StartPipeline
  \/ JqItem
  \/ JqEnd
  \/ ReadRow
  \/ LoopEnd

Spec == Init /\ [][Next]_vars

\* the script over raw records whose fields may be absent
InitRaw == ScriptStart(RawInputs, {Unset}, {<<>>}) /\ AppIdle

SpecRaw == InitRaw /\ [][Next]_vars

\* the script run time and again
RunWorkloads(i) ==
  { Workload(Deployment, ns, WorkloadName(i), <<LatestContainer(ContainerName(1))>>) :
      ns \in {Prod, Kube} }

RunsInputs == SeqsUpTo(MaxItems, RunWorkloads)

InitRuns == ScriptStart(RunsInputs, {Unset, Setting(Prod)}, {<<>>, StaleReport}) /\ AppIdle

NextRuns == Next \/ RunAgain

SpecRuns == InitRuns /\ [][NextRuns]_vars

(* --------------------------- the dashboard ---------------------------- *)
CATEGORIES == <<"All", "Stability", "Security", "FinOps">>

\* an AuditItem as the backend's JSON gives it: Category may be missing or
\* a name the dashboard has no tab for
AuditItems ==
  { [Issue_Level |-> "HIGH", Issue_Type |-> "Missing LivenessProbe - Container: c1"] @@ cat :
      cat \in Opt("Category", {"Stability", "Security", "FinOps", "Performance"}) }

AnyItem(i) == AuditItems

\* GET /api/report answers: an object with or without data
ReportAnswers == {NoKeys} \cup {"data" :> d : d \in SeqsUpTo(MaxData, AnyItem)}

\* POST /api/audit answers other than success: with or without a message
FailureAnswers ==
  { [status |-> "error"], [status |-> "error", message |-> <<>>],
    [status |-> "error", message |-> <<"Script failed">>] }

\* json.data || []
DataOf(json) == IF "data" \in DOMAIN json THEN json["data"] ELSE <<>>

\* json.message || 'Audit failed': a missing and an empty message are both falsy
MessageOf(json) ==
  IF "message" \in DOMAIN json /\ json["message"] # <<>>
  THEN json["message"]
  ELSE <<"Audit failed">>

\* new Date().toLocaleTimeString()
toLocaleTimeString(t) == <<ToString(t)>>

\* the table's filter: activeCategory === 'All' || i.Category === activeCategory
Shown(i, tab) == tab = "All" \/ ("Category" \in DOMAIN i /\ i["Category"] = tab)

\* the table's rows under a tab
Rendered(tab) == SelectSeq(data, LAMBDA i : Shown(i, tab))

\* the category cell: item.Category || 'Stability'
CategoryLabel(i) == IF "Category" \in DOMAIN i THEN i["Category"] ELSE "Stability"

\* useEffect(() => { fetchReport() }, [])
Mount ==
  /\ mountFetch = "none"
  /\ mountFetch' = "pending"
  /\ UNCHANGED <<scriptVars, inflight, data, loading, lastRun, error, activeCategory, auditPc>>

\* the mount's fetchReport gets its answer
MountFetchDone ==
  /\ mountFetch = "pending"
  /\ \E json \in ReportAnswers : data' = DataOf(json)
  /\ mountFetch' = "done"
  /\ UNCHANGED <<scriptVars, inflight, loading, lastRun, error, activeCategory, auditPc>>

\* the mount's fetchReport throws: console.error only
MountFetchFail ==
  /\ mountFetch = "pending"
  /\ mountFetch' = "done"
  /\ UNCHANGED <<scriptVars, inflight, data, loading, lastRun, error, activeCategory, auditPc>>

\* the Run Audit button (disabled while loading): runAudit up to its first await
ClickRunAudit ==
  /\ mountFetch # "none"
  /\ ~loading
  /\ loading' = TRUE
  /\ error' = <<>>
  /\ auditPc' = "audit"
  /\ inflight' = inflight + 1
  /\ UNCHANGED <<scriptVars, data, lastRun, activeCategory, mountFetch>>

\* json.status === 'success': setLastRun, then await fetchReport()
AuditSuccess ==
  /\ auditPc = "audit"
  /\ lastRun' = toLocaleTimeString(now)
  /\ auditPc' = "report"
  /\ inflight' = inflight - 1
  /\ UNCHANGED <<scriptVars, data, loading, error, activeCategory, mountFetch>>

\* a variant that empties the table when the audit fails
AuditFailureClearsData ==
  /\ auditPc = "audit"
  /\ \E json \in FailureAnswers : error' = MessageOf(json)
  /\ data' = <<>>
  /\ loading' = FALSE
  /\ auditPc' = "idle"
  /\ inflight' = inflight - 1
  /\ UNCHANGED <<scriptVars, lastRun, activeCategory, mountFetch>>

\* another status: setError(json.message || 'Audit failed'), finally
AuditFailure ==
  /\ auditPc = "audit"
  /\ \E json \in FailureAnswers : error' = MessageOf(json)
  /\ loading' = FALSE
  /\ auditPc' = "idle"
  /\ inflight' = inflight - 1
  /\ UNCHANGED <<scriptVars, data, lastRun, activeCategory, mountFetch>>

\* a variant whose setLoading(false) is not in a finally
AuditThrowKeepsLoading ==
  /\ auditPc = "audit"
  /\ error' = <<"Failed to connect to backend">>
  /\ auditPc' = "idle"
  /\ inflight' = inflight - 1
  /\ UNCHANGED <<scriptVars, data, loading, lastRun, activeCategory, mountFetch>>

\* fetch or res.json() throws: setError('Failed to connect to backend'), finally
AuditThrow ==
  /\ auditPc = "audit"
  /\ error' = <<"Failed to connect to backend">>
  /\ loading' = FALSE
  /\ auditPc' = "idle"
  /\ inflight' = inflight - 1
  /\ UNCHANGED <<scriptVars, data, lastRun, activeCategory, mountFetch>>

\* runAudit's fetchReport gets its answer, finally
AuditReportDone ==
  /\ auditPc = "report"
  /\ \E json \in ReportAnswers : data' = DataOf(json)
  /\ loading' = FALSE
  /\ auditPc' = "idle"
  /\ UNCHANGED <<scriptVars, inflight, lastRun, error, activeCategory, mountFetch>>

\* runAudit's fetchReport throws (caught inside fetchReport), finally
AuditReportFail ==
  /\ auditPc = "report"
  /\ loading' = FALSE
  /\ auditPc' = "idle"
  /\ UNCHANGED <<scriptVars, inflight, data, lastRun, error, activeCategory, mountFetch>>

\* a filter tab is clicked
SetActiveCategory ==
  /\ mountFetch # "none"
  /\ \E k \in 1..Len(CATEGORIES) : activeCategory' = CATEGORIES[k]
  /\ UNCHANGED <<scriptVars, inflight, data, loading, lastRun, error, mountFetch, auditPc>>

NextApp ==
  \/ Tick
  \/ Mount
  \/ MountFetchDone
  \/ MountFetchFail
  \/ ClickRunAudit
  \/ AuditSuccess
  \/ AuditFailure
  \/ AuditThrow
  \/ AuditReportDone
  \/ AuditReportFail
  \/ SetActiveCategory

\* the dashboard beside a script that is not running
InitApp == ScriptStart({<<>>}, {Unset}, {<<>>}) /\ AppIdle

SpecApp == InitApp /\ [][NextApp]_vars

\* an awaited fetch settles: it is answered or it throws
SpecAppLive ==
  /\ SpecApp
  /\ WF_vars(AuditSuccess \/ AuditFailure \/ AuditThrow)
  /\ WF_vars(AuditReportDone \/ AuditReportFail)

(* ------------------- reading the report (for the claims) --------------- *)
\* the report's data lines, once this run has written its header
Report == IF pc \in {"pipeline", "done"} THEN Tail(CSV_FILE) ELSE <<>>

\* the data lines cut at their commas: a sequence of rows of columns
Parsed == [i \in 1..Len(Report) |-> split(Report[i], Comma)]

Col(row, k) == IF k <= Len(row) THEN row[k] ELSE <<>>

Finished == pc = "done"

\* the names listed in the script's exclusion list
ExcludedNames ==
  LET names == split(EXCLUDE_NS, Comma) IN {names[i] : i \in 1..Len(names)}

Audited(w) == w["namespace"] \notin ExcludedNames

IssueCol(issue, detail) == <<issue, " - ">> \o detail
OnContainer(c) == <<"Container: ">> \o c["name"]

\* the rows of P that name workload w
RowsOf(P, w) ==
  { i \in 1..Len(P) :
      /\ Col(P[i], 2) = w["namespace"]
      /\ Col(P[i], 3) = w["kind"]
      /\ Col(P[i], 4) = w["name"] }

\* the rows of workload w that carry this issue column
LinesOf(P, w, issueCol) == { i \in RowsOf(P, w) : Col(P[i], 6) = issueCol }

\* exactly n rows of workload w carry the issue column, each at this level
Reported(P, w, level, issueCol, n) ==
  /\ Cardinality(LinesOf(P, w, issueCol)) = n
  /\ \A i \in LinesOf(P, w, issueCol) : Col(P[i], 5) = <<level>>

Count(b) == IF b THEN 1 ELSE 0

Workloads == {cluster[i] : i \in 1..Len(cluster)}
ContainersOf(w) == {w["containers"][j] : j \in 1..Len(w["containers"])}

(* C1: for every container of every audited workload the resource rules    *)
(* report at most one finding: one CRITICAL "Missing Requests" and no      *)
(* "Missing Limits" when requests are absent (limits present or not), one  *)
(* CRITICAL "Missing Limits" when requests are present and limits absent,  *)
(* none when both are present.                                             *)
C1_ResourceRules ==
  Finished =>
    LET P == Parsed IN
    \A w \in Workloads : Audited(w) =>
      \A c \in ContainersOf(w) :
        LET req == "requests" \in DOMAIN c
            lim == "limits" \in DOMAIN c
        IN /\ Reported(P, w, "CRITICAL", IssueCol("Missing Requests", OnContainer(c)),
                       Count(~req))
           /\ Reported(P, w, "CRITICAL", IssueCol("Missing Limits", OnContainer(c)),
                       Count(req /\ ~lim))

\* a finished run over a container with limits and no requests: one finding
C1_Witness ==
  /\ Finished
  /\ \E w \in Workloads : Audited(w) /\ \E c \in ContainersOf(w) :
       /\ ~("requests" \in DOMAIN c) /\ "limits" \in DOMAIN c
       /\ Cardinality(LinesOf(Parsed, w, IssueCol("Missing Requests", OnContainer(c)))) = 1
       /\ LinesOf(Parsed, w, IssueCol("Missing Limits", OnContainer(c))) = {}

(* C2: an audited workload gets exactly one WARN "Single Replica" finding  *)
(* if it is a Deployment whose replicas field is absent or 1, and none if  *)
(* it is a Deployment with another count or a StatefulSet or DaemonSet.    *)
C2_SingleReplica ==
  Finished =>
    LET P == Parsed IN
    \A w \in Workloads : Audited(w) =>
      Reported(P, w, "WARN", IssueCol("Single Replica", <<"replicas=1">>),
               Count(/\ w["kind"] = Deployment
                     /\ ("replicas" \in DOMAIN w => w["replicas"] = 1)))

\* a finished run over a Deployment with no replicas field: one finding; the
\* report the earlier run left is gone
C2_Witness ==
  /\ Finished
  /\ \E w \in Workloads :
       /\ Audited(w) /\ w["kind"] = Deployment /\ ~("replicas" \in DOMAIN w)
       /\ Cardinality(LinesOf(Parsed, w, IssueCol("Single Replica", <<"replicas=1">>))) = 1

(* C3: a container gets exactly one WARN "Using Latest Tag" finding if and *)
(* only if its image has no explicit tag or the tag "latest", for every    *)
(* image reference, a registry host with a port included.                  *)
LastSlash(img) ==
  IF \E i \in 1..Len(img) : img[i] = Slash
  THEN CHOOSE i \in 1..Len(img) : img[i] = Slash /\ \A j \in (i + 1)..Len(img) : img[j] # Slash
  ELSE 0

\* the image's last path component, where a tag is written
LastComponent(img) == SubSeq(img, LastSlash(img) + 1, Len(img))

NoTagOrLatest(img) ==
  LET parts == split(LastComponent(img), Colon) IN
  Len(parts) < 2 \/ parts[Len(parts)] = <<"latest">>

LatestTagCol(c) ==
  IssueCol("Using Latest Tag", OnContainer(c) \o <<" (">> \o c["image"] \o <<")">>)

C3_LatestTagIffUntagged ==
  Finished =>
    LET P == Parsed IN
    \A w \in Workloads : Audited(w) =>
      \A c \in ContainersOf(w) :
        Reported(P, w, "WARN", LatestTagCol(c), Count(NoTagOrLatest(c["image"])))

(* C4: the per-container rules are independent: a container gets exactly   *)
(* one HIGH "Privileged Container" finding iff privileged is true, exactly *)
(* one HIGH "Missing LivenessProbe" iff it has no liveness probe, exactly  *)
(* one HIGH "Missing ReadinessProbe" iff it has no readiness probe,        *)
(* whatever its other fields are and whatever else was reported.           *)
C4_IndependentRules ==
  Finished =>
    LET P == Parsed IN
    \A w \in Workloads : Audited(w) =>
      \A c \in ContainersOf(w) :
        /\ Reported(P, w, "HIGH", IssueCol("Privileged Container", OnContainer(c)),
                    Count("privileged" \in DOMAIN c /\ c["privileged"]))
        /\ Reported(P, w, "HIGH", IssueCol("Missing LivenessProbe", OnContainer(c)),
                    Count(~("livenessProbe" \in DOMAIN c)))
        /\ Reported(P, w, "HIGH", IssueCol("Missing ReadinessProbe", OnContainer(c)),
                    Count(~("readinessProbe" \in DOMAIN c)))

\* a finished run over a privileged container with neither probe, on which
\* the image and resource rules fire too: all three findings are there
C4_Witness ==
  /\ Finished
  /\ \E w \in Workloads : Audited(w) /\ \E c \in ContainersOf(w) :
       /\ "privileged" \in DOMAIN c /\ c["privileged"]
       /\ DOMAIN c \cap {"livenessProbe", "readinessProbe", "requests"} = {}
       /\ c["image"] = NginxLatest
       /\ LinesOf(Parsed, w, IssueCol("Privileged Container", OnContainer(c))) # {}
       /\ LinesOf(Parsed, w, IssueCol("Missing LivenessProbe", OnContainer(c))) # {}
       /\ LinesOf(Parsed, w, IssueCol("Missing ReadinessProbe", OnContainer(c))) # {}
       /\ LinesOf(Parsed, w, LatestTagCol(c)) # {}

(* C5: the namespace filter drops a workload iff its namespace equals,     *)
(* case-sensitively and as a whole string, one of the names of the         *)
(* comma-delimited exclusion list, wherever the workload stands in the     *)
(* input and wherever the name stands in the list; the other workloads     *)
(* keep their order; no report line carries an excluded namespace.  The    *)
(* list is the EXCLUDE_NS setting, and the default list when EXCLUDE_NS is *)
(* unset or empty.                                                         *)
NamesOf(list) == {split(list, Comma)[i] : i \in 1..Len(split(list, Comma))}

DefaultNames ==
  { <<"kube", "-system">>, <<"kube", "-public">>, <<"local-path-storage">>,
    <<"ingress-nginx">>, <<"cert-manager">> }

\* the place in the input of the workload a row names
WIdx(row) == CHOOSE i \in 1..Len(cluster) : cluster[i]["name"] = Col(row, 4)

\* a workload the rules are sure to flag
Flagged(w) == \E c \in ContainersOf(w) : ~("requests" \in DOMAIN c)

FilteredBy(P, names) ==
  /\ \A i \in 1..Len(P) : Col(P[i], 2) \notin names
  /\ \A w \in Workloads : Flagged(w) => (RowsOf(P, w) # {} <=> w["namespace"] \notin names)
  /\ \A i \in 1..(Len(P) - 1) : WIdx(P[i]) <= WIdx(P[i + 1])

C5_NamespaceFilter ==
  Finished =>
    IF "EXCLUDE_NS" \in DOMAIN environ /\ environ["EXCLUDE_NS"] # <<>>
    THEN FilteredBy(Parsed, NamesOf(environ["EXCLUDE_NS"]))
    ELSE FilteredBy(Parsed, DefaultNames)

\* the claim as stated: an empty exclusion set drops nothing
C5_EmptySetDropsNothing ==
  Finished =>
    IF "EXCLUDE_NS" \in DOMAIN environ
    THEN FilteredBy(Parsed, NamesOf(environ["EXCLUDE_NS"]))
    ELSE FilteredBy(Parsed, DefaultNames)

\* a finished run with the list "kube-system,prod" over a workload in prod
\* (dropped) and workloads in kube or Kube-system (kept)
C5_Witness ==
  /\ Finished
  /\ "EXCLUDE_NS" \in DOMAIN environ
  /\ environ["EXCLUDE_NS"] = KubeSystem \o <<Comma>> \o Prod
  /\ \E w \in Workloads : w["namespace"] = Prod /\ RowsOf(Parsed, w) = {}
  /\ \E w \in Workloads : w["namespace"] \in {Kube, KubeSystemUpper} /\ RowsOf(Parsed, w) # {}

(* C6: the report is ordered by the input: workloads in input order, each  *)
(* workload's findings together; within a workload in rule order (Single   *)
(* Replica, Privileged Container, Using Latest Tag, Missing LivenessProbe, *)
(* Missing ReadinessProbe, resource rules); within a rule in container     *)
(* order.                                                                  *)
RuleRank(issue) ==
  CASE issue = "Single Replica" -> 1
    [] issue = "Privileged Container" -> 2
    [] issue = "Using Latest Tag" -> 3
    [] issue = "Missing LivenessProbe" -> 4
    [] issue = "Missing ReadinessProbe" -> 5
    [] issue \in {"Missing Requests", "Missing Limits"} -> 6

Rank(row) == RuleRank(Col(row, 6)[1])

\* the place in its workload of the container a row names, 0 for a workload rule
CIdx(row) ==
  IF Rank(row) = 1 THEN 0
  ELSE LET cs == cluster[WIdx(row)]["containers"] IN
       CHOOSE j \in 1..Len(cs) : cs[j]["name"] = <<Col(row, 6)[4]>>

Precedes(a, b) ==
  \/ WIdx(a) < WIdx(b)
  \/ WIdx(a) = WIdx(b) /\ Rank(a) < Rank(b)
  \/ WIdx(a) = WIdx(b) /\ Rank(a) = Rank(b) /\ CIdx(a) < CIdx(b)

\* Precedes is a strict order, so neighbours in order means all in order
C6_Ordering ==
  LET P == Parsed IN \A i \in 1..(Len(P) - 1) : Precedes(P[i], P[i + 1])

\* a finished report with two rows of one rule on two containers of a
\* workload, a row of a later rule on the first container, and a row of a
\* later workload
C6_Witness ==
  /\ Finished
  /\ LET P == Parsed IN
     \E i, j, k, l \in 1..Len(P) :
       /\ i < j /\ j < k /\ k < l
       /\ WIdx(P[i]) = WIdx(P[j]) /\ Rank(P[i]) = Rank(P[j])
       /\ CIdx(P[i]) = 1 /\ CIdx(P[j]) = 2
       /\ WIdx(P[k]) = WIdx(P[i]) /\ Rank(P[k]) > Rank(P[j])
       /\ CIdx(P[k]) = 1
       /\ WIdx(P[l]) > WIdx(P[k])

(* C7: every finding of one run carries the same timestamp, the clock      *)
(* value read once when the run's jq command starts, however many          *)
(* workloads and rules were evaluated.                                     *)
C7_OneTimestamp ==
  LET P == Parsed IN \A i \in 1..Len(P) : Col(P[i], 1) = Col(P[1], 1)

\* a finished report of findings of two workloads, written while the clock
\* moved on
C7_Witness ==
  /\ Finished
  /\ current_time # date(now)
  /\ LET P == Parsed IN \E i, j \in 1..Len(P) : WIdx(P[i]) # WIdx(P[j])

(* C8: a workload that violates no rule has no row (no PASS row), and the  *)
(* rows of an audited workload are as many as the rule conditions it       *)
(* violates.                                                               *)
RuleNames ==
  {"privileged", "latest", "liveness", "readiness", "requests", "limits"}

Violates(c, rule) ==
  CASE rule = "privileged" -> "privileged" \in DOMAIN c /\ c["privileged"]
    [] rule = "latest" -> NoTagOrLatest(c["image"])
    [] rule = "liveness" -> ~("livenessProbe" \in DOMAIN c)
    [] rule = "readiness" -> ~("readinessProbe" \in DOMAIN c)
    [] rule = "requests" -> ~("requests" \in DOMAIN c)
    [] rule = "limits" -> "requests" \in DOMAIN c /\ ~("limits" \in DOMAIN c)

Violations(w) ==
  Count(w["kind"] = Deployment /\ ("replicas" \in DOMAIN w => w["replicas"] = 1))
  + Cardinality({ jr \in (1..Len(w["containers"])) \X RuleNames :
                    Violates(w["containers"][jr[1]], jr[2]) })

C8_RowsEqualViolations ==
  Finished =>
    LET P == Parsed IN
    \A w \in Workloads : Audited(w) => Cardinality(RowsOf(P, w)) = Violations(w)

(* C9: a malformed workload (kind, namespace, name or container list       *)
(* missing) never aborts the run: it is skipped, and every well-formed     *)
(* workload, before or after it, has all of its findings in the report.    *)
WellFormed(w) == {"kind", "namespace", "name", "containers"} \subseteq DOMAIN w

C9_MalformedNeverAborts ==
  Finished =>
    LET P == Parsed IN
    \A w \in Workloads : WellFormed(w) /\ Audited(w) =>
      \A c \in ContainersOf(w) :
        /\ Reported(P, w, "WARN", LatestTagCol(c), Count(NoTagOrLatest(c["image"])))
        /\ Reported(P, w, "CRITICAL", IssueCol("Missing Requests", OnContainer(c)),
                    Count(~("requests" \in DOMAIN c)))

(* C10: classification is total: every finding is shown with exactly one   *)
(* category of Stability, Security, FinOps; one whose category is missing  *)
(* or unrecognized is treated as Stability and never dropped from the      *)
(* report.                                                                 *)
KnownCategories == {"Stability", "Security", "FinOps"}

C10_TotalClassification ==
  \A k \in 1..Len(data) :
    LET i == data[k] IN
    /\ CategoryLabel(i) \in KnownCategories
    /\ ~("Category" \in DOMAIN i /\ i["Category"] \in KnownCategories) =>
         /\ CategoryLabel(i) = "Stability"
         /\ Shown(i, "Stability")

(* C11: the report starts with the header                                  *)
(* Timestamp,Namespace,Type,Name,Issue_Level,Issue_Type,Recommendation and *)
(* every data row parses, as CSV, to exactly those seven fields in that    *)
(* order (the fifth a level, the seventh a recommendation), also when a    *)
(* field value holds a comma, embedded commas being quoted.                *)
Quote == "\""

\* a CSV reader: a comma outside quotes ends a field, quotes are dropped
RECURSIVE CsvFrom(_, _, _, _)
CsvFrom(s, i, cur, quoted) ==
  IF i > Len(s) THEN <<cur>>
  ELSE IF s[i] = Quote THEN CsvFrom(s, i + 1, cur, ~quoted)
  ELSE IF s[i] = Comma /\ ~quoted THEN <<cur>> \o CsvFrom(s, i + 1, <<>>, FALSE)
  ELSE CsvFrom(s, i + 1, Append(cur, s[i]), quoted)

ParseCsv(line) == CsvFrom(line, 1, <<>>, FALSE)

Levels == {<<"CRITICAL">>, <<"HIGH">>, <<"WARN">>}

Recommendations ==
  { <<"Increase replicas > 1 for HA">>, <<"Avoid privileged mode">>,
    <<"Use specific version tag">>, <<"Add livenessProbe">>, <<"Add readinessProbe">>,
    <<"Define resources.requests">>, <<"Define resources.limits">> }

C11_SevenFields ==
  /\ pc \in {"jq_start", "pipeline", "done"} =>
       ParseCsv(CSV_FILE[1]) =
         << <<"Timestamp">>, <<"Namespace">>, <<"Type">>, <<"Name">>,
            <<"Issue_Level">>, <<"Issue_Type">>, <<"Recommendation">> >>
  /\ \A i \in 1..Len(Report) :
       LET f == ParseCsv(Report[i]) IN
       /\ Len(f) = 7
       /\ f[5] \in Levels
       /\ f[7] \in Recommendations

(* C12: findings never accumulate across runs: whenever a run of the      *)
(* script has got to write its report, the report holds findings of that   *)
(* run only (each stamped by that run, each naming an audited workload of  *)
(* the cluster as that run saw it), and once the run is complete it holds  *)
(* exactly as many rows as that run found issues; nothing an earlier run   *)
(* wrote is left.                                                          *)
RECURSIVE FindingsOf(_)
FindingsOf(items) ==
  IF items = <<>> THEN 0
  ELSE (IF Audited(Head(items)) THEN Len(Issues(Head(items))) ELSE 0)
         + FindingsOf(Tail(items))

IsExample == cluster = <<Web>>

ExampleFindings ==
  << <<"WARN", "Single Replica">>, <<"WARN", "Using Latest Tag">>,
     <<"HIGH", "Missing LivenessProbe">>, <<"HIGH", "Missing ReadinessProbe">>,
     <<"CRITICAL", "Missing Requests">> >>

C13_ExampleFive ==
  Finished /\ IsExample =>
    LET P == Parsed IN
    IF Prod \in ExcludedNames THEN P = <<>>
    ELSE /\ Len(P) = 5
         /\ \A i \in 1..Len(P) :
              /\ Col(P[i], 2) = Prod /\ Col(P[i], 3) = Deployment
              /\ Col(P[i], 4) = <<"web">>
              /\ <<Col(P[i], 5)[1], Col(P[i], 6)[1]>> = ExampleFindings[i]

\* the claim as stated: six findings
C13_ExampleSix ==
  Finished /\ IsExample =>
    Len(Report) = IF Prod \in ExcludedNames THEN 0 ELSE 6

\* a complete run over the example with prod not excluded has written rows
C13_Witness ==
  /\ Finished
  /\ IsExample
  /\ Prod \notin ExcludedNames
  /\ Report # <<>>

(* C14: the script is deterministic: two complete runs on the same         *)
(* workload sequence, with the same exclusion list and the same clock      *)
(* value in $current_time, leave byte-identical reports, whatever the      *)
(* second run found in the report file, however jq and the read loop were  *)
(* scheduled and whether or not the clock moved during either run.         *)
SameInputs ==
  /\ earlier.ran
  /\ earlier.items = cluster
  /\ earlier.exclude = EXCLUDE_NS
  /\ earlier.clock = current_time

C14_Deterministic == Finished /\ SameInputs => CSV_FILE = earlier.report

\* two complete runs on the same inputs within one second, the clock having
\* moved on since the second read it, with findings in the report
C14_Witness ==
  /\ Finished
  /\ SameInputs
  /\ current_time # date(now)
  /\ Len(CSV_FILE) > 2

(* C15: runAudit always releases the loading flag: once loading is true   *)
(* it becomes false again on every path (the audit succeeds and the report *)
(* is fetched again, the backend answers another status, a request         *)
(* throws); and, the Run Audit button being disabled while loading is      *)
(* true, at most one audit request is in flight at any time.               *)
C15_LoadingReleased ==
  /\ [](inflight <= 1 /\ (inflight = 1 => loading))
  /\ (loading ~> ~loading)

\* an audit request is in flight, the flag up
C15_Witness == inflight = 1 /\ loading /\ auditPc = "audit"

(* C16: a failed audit leaves the displayed findings untouched: the step   *)
(* of runAudit that handles another status or a throw leaves data and      *)
(* lastRun as they are and sets error to a message that is not null;       *)
(* runAudit clears error when it starts, and error is null when a          *)
(* successful audit ends.                                                  *)
AuditFails == auditPc = "audit" /\ auditPc' = "idle"
AuditStarts == auditPc = "idle" /\ auditPc' = "audit"
AuditSucceeds == auditPc = "report" /\ auditPc' = "idle"

C16_FailedAuditFrame ==
  [][ /\ AuditFails => data' = data /\ lastRun' = lastRun /\ error' # <<>>
      /\ AuditStarts => error' = <<>>
      /\ AuditSucceeds => error' = <<>> ]_vars

\* an audit has failed while findings of an earlier, successful audit are shown
C16_Witness ==
  /\ auditPc = "idle"
  /\ ~loading
  /\ error # <<>>
  /\ data # <<>>
  /\ lastRun # <<>>

(* C17: the category tabs partition the findings: every finding listed     *)
(* under All is listed under exactly one of the Stability, Security and    *)
(* FinOps tabs, the one named by the category label its row shows, a       *)
(* finding with no Category (labelled Stability) included.                 *)
TabsShowing(i) == { tab \in KnownCategories : Shown(i, tab) }

C17_TabsPartition ==
  \A k \in 1..Len(Rendered("All")) :
    LET i == Rendered("All")[k] IN TabsShowing(i) = {CategoryLabel(i)}

====
